---- MODULE Spec2Model ----
(***************************************************************************)
(* Job lifecycle store (services/ai-agent/src/tasks/job_store.py) and the  *)
(* asynchronous job routes built on it (services/ai-agent/src/api/         *)
(* routes.py): create / get / update / delete / list over a local map      *)
(* mirrored to Redis, the background wrappers run_*_job and the cancel     *)
(* route; the Celery status mapping (tasks/celery_app.py); and the test    *)
(* runner of the backend (backend/app/services/test_runner.py): the step   *)
(* to script conversion and the subprocess run in a temporary directory.   *)
(***************************************************************************)
EXTENDS Integers, Sequences, FiniteSets, TLC

\* ------------------------------------------------------------------ bounds
\* Number of job ids in play.
MaxJobs == 1
\* Number of distinct later readings of datetime.utcnow() that are followed.
MaxClock == 1

JobIds == 1..MaxJobs

\* Number of job ids the listing is followed over, and the largest limit asked.
MaxListed == 2
ListIds == 1..MaxListed
Limits == 1..MaxListed
AllIds == JobIds \cup ListIds

\* Number of Celery task ids get_task_status is asked about.
MaxTasks == 2
TaskIds == 1..MaxTasks

\* Longest step list given to the step conversion.
MaxSteps == 2

\* Payloads a unit of work returns (result.model_dump()) and the texts of the
\* exceptions it raises (str(e)).
Payloads == {"r1"}
Faults == {"e1"}

\* ---------------------------------------------------------------- Optional
\* Python's Optional[X]: None, or a present value.
None == <<>>
Some(x) == <<x>>

\* ------------------------------------------------------------- JobStatus
PENDING == "PENDING"
RUNNING == "RUNNING"
COMPLETED == "COMPLETED"
FAILED == "FAILED"
JobStatuses == {PENDING, RUNNING, COMPLETED, FAILED}

\* JobStatus.<member>.value
StatusValue(s) ==
    CASE s = PENDING -> "pending"
      [] s = RUNNING -> "running"
      [] s = COMPLETED -> "completed"
      [] s = FAILED -> "failed"

\* JobStatus(<value>): the member whose value is v.
JobStatus(v) == CHOOSE s \in JobStatuses : StatusValue(s) = v

Terminal == {COMPLETED, FAILED}

\* -------------------------------------------------------------- variables
VARIABLES
    memory_store,   \* JobStore._memory_store: job_id -> job dict
    redis_data,     \* the Redis keyspace: key -> JSON text (entries carry a TTL)
    redis_client,   \* JobStore._redis_client is set (TRUE) or None (FALSE)
    now,            \* the latest reading of datetime.utcnow()
    pc,             \* per job id, where its background wrapper stands
    work,           \* per job id, how its unit of work ended (None while it has not)
    cancelled,      \* job ids for which the cancel route answered 200
    live,           \* job ids created and not deleted since
    raised,         \* an exception escaped a JobStore call
    celery_backend, \* Celery result backend: task id -> [status, result]
    task_reply,     \* what get_task_status returned last (None before any call)
    run,            \* the TestRunner.run_cypress / run_playwright call in progress
    tempdir,        \* the call's temporary directory: None, or the files in it
    process,        \* the subprocess and what it spawned
    steps,          \* argument of _steps_to_cypress / _steps_to_playwright
    script          \* what the conversion returned (None before any call)

storeVars == <<memory_store, redis_data, redis_client, now, pc, work, cancelled,
               live, raised>>
celeryVars == <<celery_backend, task_reply>>
runnerVars == <<run, tempdir, process>>
stepVars == <<steps, script>>

vars == <<storeVars, celeryVars, runnerVars, stepVars>>

\* --------------------------------------------------------------- datetime
\* datetime.utcnow() at reading t of the clock: a naive datetime; its
\* microsecond field may be 0.
utcnow(t) == [second |-> t \div 2, microsecond |-> (t % 2) * 500000]

\* What a reading of the clock may give: the time of the latest reading again,
\* or a later one.
Readings == {t \in {now, now + 1} : t <= MaxClock}

\* isoformat cut to whole seconds (timespec="seconds").
isoformat_Seconds(dt) == <<dt.second>>

\* datetime.isoformat(): the fraction is left out when microsecond is 0.
isoformat(dt) ==
    IF dt.microsecond = 0 THEN <<dt.second>> ELSE <<dt.second, dt.microsecond>>

\* datetime.fromisoformat(): a missing fraction reads as microsecond 0.
fromisoformat(s) ==
    [second |-> s[1], microsecond |-> IF Len(s) > 1 THEN s[2] ELSE 0]

\* ------------------------------------------------------------ conversions
\* f with key k set to v (dict item assignment / Redis SETEX).
Put(f, k, v) == [x \in (DOMAIN f) \cup {k} |-> IF x = k THEN v ELSE f[x]]

\* f without key k (dict.pop / del / Redis DEL / expiry).
Drop(f, k) == [x \in (DOMAIN f) \ {k} |-> f[x]]

JobKey(job_id) == <<"ai-agent:job:", job_id>>

JobToDict(job) ==
    [job_id |-> job.job_id,
     status |-> StatusValue(job.status),
     created_at |-> isoformat(job.created_at),
     completed_at |-> IF job.completed_at # None
                      THEN Some(isoformat(job.completed_at[1]))
                      ELSE None,
     result |-> job.result,
     error |-> job.error]

DictToJob(data) ==
    [job_id |-> data.job_id,
     status |-> JobStatus(data.status),
     created_at |-> fromisoformat(data.created_at),
     completed_at |-> IF data.completed_at # None
                      THEN Some(fromisoformat(data.completed_at[1]))
                      ELSE None,
     result |-> data.result,
     error |-> data.error]

\* json.dumps / json.loads of a job dict (strings, None and a JSON payload).
JsonDumps(d) == <<"json", d>>
JsonLoads(text) == text[2]

DeserializeJob(text) == DictToJob(JsonLoads(text))

\* ---------------------------------------------------------------- JobStore
\* get_job that asks the local map only when there is no Redis client.
GetJob_NoFallback(mem, rds, job_id, ok) ==
    IF redis_client
    THEN IF ok /\ JobKey(job_id) \in DOMAIN rds
         THEN Some(DeserializeJob(rds[JobKey(job_id)]))
         ELSE None
    ELSE IF job_id \in DOMAIN mem
         THEN Some(DictToJob(mem[job_id]))
         ELSE None

\* get_job: Redis first; on a miss or a Redis error, the local map.
GetJob(mem, rds, job_id, ok) ==
    IF redis_client /\ ok /\ JobKey(job_id) \in DOMAIN rds
    THEN Some(DeserializeJob(rds[JobKey(job_id)]))
    ELSE IF job_id \in DOMAIN mem
         THEN Some(DictToJob(mem[job_id]))
         ELSE None

\* _save_job: the local map always, Redis when the SETEX goes through.
SaveJob(mem, rds, job, ok) ==
    LET job_dict == JobToDict(job) IN
    [mem |-> Put(mem, job.job_id, job_dict),
     rds |-> IF redis_client /\ ok
             THEN Put(rds, JobKey(job.job_id), JsonDumps(job_dict))
             ELSE rds,
     raised |-> FALSE]

\* create_job that starts the record as Running.
CreateJob_Running(mem, rds, job_id, t, ok) ==
    LET job == [job_id |-> job_id,
                status |-> RUNNING,
                created_at |-> utcnow(t),
                completed_at |-> None,
                result |-> None,
                error |-> None]
        s == SaveJob(mem, rds, job, ok)
    IN [mem |-> s.mem, rds |-> s.rds, ret |-> Some(job), raised |-> s.raised]

\* create_job
CreateJob(mem, rds, job_id, t, ok) ==
    LET job == [job_id |-> job_id,
                status |-> PENDING,
                created_at |-> utcnow(t),
                completed_at |-> None,
                result |-> None,
                error |-> None]
        s == SaveJob(mem, rds, job, ok)
    IN [mem |-> s.mem, rds |-> s.rds, ret |-> Some(job), raised |-> s.raised]

\* update_job that saves a record of its own when get_job finds none.
UpdateJob_Upsert(mem, rds, job_id, status, result, error, t, okGet, okSet) ==
    LET got == GetJob(mem, rds, job_id, okGet)
        job == IF got = None
               THEN [job_id |-> job_id,
                     status |-> PENDING,
                     created_at |-> utcnow(t),
                     completed_at |-> None,
                     result |-> None,
                     error |-> None]
               ELSE got[1]
        j1 == IF status # None
              THEN [job EXCEPT
                      !.status = status[1],
                      !.completed_at = IF status[1] \in {COMPLETED, FAILED}
                                       THEN Some(utcnow(t))
                                       ELSE @]
              ELSE job
        j2 == IF result # None THEN [j1 EXCEPT !.result = result] ELSE j1
        j3 == IF error # None THEN [j2 EXCEPT !.error = error] ELSE j2
        s == SaveJob(mem, rds, j3, okSet)
    IN [mem |-> s.mem, rds |-> s.rds, ret |-> Some(j3), raised |-> s.raised]

\* update_job
UpdateJob(mem, rds, job_id, status, result, error, t, okGet, okSet) ==
    LET got == GetJob(mem, rds, job_id, okGet) IN
    IF got = None
    THEN [mem |-> mem, rds |-> rds, ret |-> None, raised |-> FALSE]
    ELSE LET job == got[1]
             j1 == IF status # None
                   THEN [job EXCEPT
                           !.status = status[1],
                           !.completed_at = IF status[1] \in {COMPLETED, FAILED}
                                            THEN Some(utcnow(t))
                                            ELSE @]
                   ELSE job
             j2 == IF result # None THEN [j1 EXCEPT !.result = result] ELSE j1
             j3 == IF error # None THEN [j2 EXCEPT !.error = error] ELSE j2
             s == SaveJob(mem, rds, j3, okSet)
         IN [mem |-> s.mem, rds |-> s.rds, ret |-> Some(j3), raised |-> s.raised]

MarkRunning(mem, rds, job_id, t, okGet, okSet) ==
    UpdateJob(mem, rds, job_id, Some(RUNNING), None, None, t, okGet, okSet)

\* mark_completed that does not pass the result on.
MarkCompleted_NoResult(mem, rds, job_id, result, t, okGet, okSet) ==
    UpdateJob(mem, rds, job_id, Some(COMPLETED), None, None, t, okGet, okSet)

MarkCompleted(mem, rds, job_id, result, t, okGet, okSet) ==
    UpdateJob(mem, rds, job_id, Some(COMPLETED), Some(result), None, t,
              okGet, okSet)

MarkFailed(mem, rds, job_id, error, t, okGet, okSet) ==
    UpdateJob(mem, rds, job_id, Some(FAILED), None, Some(error), t, okGet, okSet)

\* delete_job: [mem, rds, ret]; ret is the boolean the call returns.
DeleteJob(mem, rds, job_id, ok) ==
    IF redis_client /\ ok /\ JobKey(job_id) \in DOMAIN rds
    THEN [mem |-> Drop(mem, job_id), rds |-> Drop(rds, JobKey(job_id)),
          ret |-> Some(TRUE), raised |-> FALSE]
    ELSE IF job_id \in DOMAIN mem
         THEN [mem |-> Drop(mem, job_id), rds |-> rds,
               ret |-> Some(TRUE), raised |-> FALSE]
         ELSE [mem |-> mem, rds |-> rds, ret |-> Some(FALSE), raised |-> FALSE]

\* a < b on naive datetimes.
Before(a, b) ==
    \/ a.second < b.second
    \/ a.second = b.second /\ a.microsecond < b.microsecond

\* The sequences that hold every element of S once, and those that hold some
\* elements of S once.
Perms(S) ==
    {f \in [1..Cardinality(S) -> S] :
        \A a, b \in 1..Cardinality(S) : f[a] = f[b] => a = b}
Arrangements(S) == UNION {Perms(T) : T \in SUBSET S}

\* list_jobs' filter argument: None, or a status.
StatusFilters == {None} \cup {Some(st) : st \in JobStatuses}
Matches(status, job) == status = None \/ job.status = status[1]

\* any(j.job_id == job.job_id for j in jobs)
HasId(jobs, job_id) == \E i \in 1..Len(jobs) : jobs[i].job_id = job_id

\* list_jobs, the Redis part: `keys` are the keys SCAN gave whose GET gave
\* data, in that order.  A matching job is appended, and the scan stops once
\* the list is `limit` long.
RECURSIVE ScanJobs(_, _, _, _, _)
ScanJobs(keys, rds, status, limit, jobs) ==
    IF keys = <<>>
    THEN jobs
    ELSE LET job == DeserializeJob(rds[Head(keys)]) IN
         IF Matches(status, job)
         THEN IF Len(jobs) + 1 >= limit
              THEN Append(jobs, job)
              ELSE ScanJobs(Tail(keys), rds, status, limit, Append(jobs, job))
         ELSE ScanJobs(Tail(keys), rds, status, limit, jobs)

\* list_jobs, the local part: `ids` is the order the local map is iterated
\* in.  A matching job whose id is not in the list yet is appended, and the
\* loop stops once the list is `limit` long.
RECURSIVE MemoryJobs(_, _, _, _, _)
MemoryJobs(ids, mem, status, limit, jobs) ==
    IF ids = <<>>
    THEN jobs
    ELSE LET job == DictToJob(mem[Head(ids)]) IN
         IF Matches(status, job) /\ ~HasId(jobs, job.job_id)
         THEN IF Len(jobs) + 1 >= limit
              THEN Append(jobs, job)
              ELSE MemoryJobs(Tail(ids), mem, status, limit, Append(jobs, job))
         ELSE MemoryJobs(Tail(ids), mem, status, limit, jobs)

\* jobs.sort(key=lambda j: j.created_at, reverse=True): newest first, jobs of
\* equal created_at left in the order they had.
RECURSIVE SortNewestFirst(_)
SortNewestFirst(jobs) ==
    IF jobs = <<>>
    THEN <<>>
    ELSE LET n == Len(jobs)
             job == jobs[n]
             front == SortNewestFirst(SubSeq(jobs, 1, n - 1))
             k == Cardinality({i \in 1..Len(front) :
                                 ~Before(front[i].created_at, job.created_at)})
         IN SubSeq(front, 1, k) \o <<job>> \o SubSeq(front, k + 1, Len(front))

\* jobs[:limit]
Take(jobs, limit) ==
    IF limit >= 0
    THEN SubSeq(jobs, 1, IF limit < Len(jobs) THEN limit ELSE Len(jobs))
    ELSE SubSeq(jobs, 1, IF Len(jobs) + limit > 0 THEN Len(jobs) + limit ELSE 0)

\* list_jobs that returns the merged list as it was gathered, cut to limit.
ListJobs_Unsorted(mem, rds, status, limit, scanned, order) ==
    LET fromRedis == IF redis_client
                     THEN ScanJobs(scanned, rds, status, limit, <<>>)
                     ELSE <<>>
    IN Take(MemoryJobs(order, mem, status, limit, fromRedis), limit)

\* list_jobs.  `scanned`: the Redis keys read before the scan ended (all of
\* them) or raised (those read so far; the except clause keeps the list).
\* `order`: the iteration order of the local map.
ListJobs(mem, rds, status, limit, scanned, order) ==
    LET fromRedis == IF redis_client
                     THEN ScanJobs(scanned, rds, status, limit, <<>>)
                     ELSE <<>>
    IN Take(SortNewestFirst(MemoryJobs(order, mem, status, limit, fromRedis)),
            limit)

\* ------------------------------------------------------------------- Init
Empty == [x \in {} |-> None]

\* JobStore(): both stores empty; the Redis client is there or not.
StoreInit ==
    /\ memory_store = Empty
    /\ redis_data = Empty
    /\ redis_client \in BOOLEAN
    /\ now = 0
    /\ pc = [j \in AllIds |-> "none"]
    /\ work = [j \in AllIds |-> None]
    /\ cancelled = {}
    /\ live = {}
    /\ raised = FALSE

\* No Celery task was ever sent, and get_task_status was not called.
CeleryInit ==
    /\ celery_backend = Empty
    /\ task_reply = None

\* TestRunner(): no call in progress, no directory, no subprocess.
RunnerInit ==
    /\ run = None
    /\ tempdir = None
    /\ process = None

\* No conversion was asked for.
StepInit ==
    /\ steps = <<>>
    /\ script = None

Init == StoreInit /\ CeleryInit /\ RunnerInit /\ StepInit

\* ----------------------------------------------------------- environment
\* A Redis entry reaches its TTL (self._ttl_seconds) and is gone.
RedisExpire(j) ==
    /\ JobKey(j) \in DOMAIN redis_data
    /\ redis_data' = Drop(redis_data, JobKey(j))
    /\ UNCHANGED <<memory_store, redis_client, now, pc, work, cancelled,
                   live, raised>>
    /\ UNCHANGED <<celeryVars, runnerVars, stepVars>>

\* Whether a Redis call goes through or raises (connection failure, timeout);
\* every call may do either.  A call whose failure changes nothing is taken to
\* go through: with no client there is no call, and a GET or DEL of a key that
\* is not there gives the caller what a failed one gives.
OkKeyed(j) ==
    IF redis_client /\ JobKey(j) \in DOMAIN redis_data THEN BOOLEAN ELSE {TRUE}
OkSetex == IF redis_client THEN BOOLEAN ELSE {TRUE}

\* Settings.max_concurrent_jobs as configured (MAX_CONCURRENT_JOBS in the
\* environment, 10 when it is not set): the deployment followed here sets 1.
\* The only reader of the setting is the Celery configuration
\* (worker_concurrency); no route and no wrapper reads it.
max_concurrent_jobs == 1

\* ------------------------------------------------------------- the routes
\* uuid4(): an id no job has had; which one is immaterial, the least is taken.
FreshId(j) == pc[j] = "none" /\ \A i \in 1..(j - 1) : pc[i] # "none"

\* analyze_code_async and its three siblings: create the job, queue the wrapper.
Submit(j) ==
    /\ FreshId(j)
    /\ \E t \in Readings : \E ok \in OkSetex :
         LET s == CreateJob(memory_store, redis_data, j, t, ok) IN
         /\ memory_store' = s.mem
         /\ redis_data' = s.rds
         /\ raised' = s.raised
         /\ now' = t
    /\ pc' = [pc EXCEPT ![j] = "queued"]
    /\ live' = live \cup {j}
    /\ UNCHANGED <<redis_client, work, cancelled>>
    /\ UNCHANGED <<celeryVars, runnerVars, stepVars>>

\* What a unit of work hands back: a result model, or an exception (the agents
\* re-raise what their own `except Exception` catches).
Outcomes ==
    {<<"return", <<"model", p>>>> : p \in Payloads}
        \cup {<<"raise", <<"Exception", e>>>> : e \in Faults}

\* result.model_dump() and str(e)
ModelDump(result) == result[2]
Str(e) == e[2]

\* run_*_job, first half: mark_running, then the wrapper is suspended in
\* `await` on the unit of work.
RunJobStart(mem, rds, job_id, t, okGet, okSet) ==
    MarkRunning(mem, rds, job_id, t, okGet, okSet)

\* run_*_job without its except clause: an exception of the unit of work
\* leaves the wrapper.
RunJobFinish_NoExcept(mem, rds, job_id, out, t, okGet, okSet) ==
    IF out[1] = "return"
    THEN MarkCompleted(mem, rds, job_id, ModelDump(out[2]), t, okGet, okSet)
    ELSE [mem |-> mem, rds |-> rds, ret |-> None, raised |-> TRUE]

\* run_*_job, second half (try / except Exception): the unit of work has
\* returned or raised.
RunJobFinish(mem, rds, job_id, out, t, okGet, okSet) ==
    IF out[1] = "return"
    THEN MarkCompleted(mem, rds, job_id, ModelDump(out[2]), t, okGet, okSet)
    ELSE MarkFailed(mem, rds, job_id, Str(out[2]), t, okGet, okSet)

RunStart(j) ==
    /\ pc[j] = "queued"
    /\ \E okGet \in OkKeyed(j) : \E okSet \in OkSetex :
         LET s == RunJobStart(memory_store, redis_data, j, now, okGet, okSet) IN
         /\ memory_store' = s.mem
         /\ redis_data' = s.rds
         /\ raised' = s.raised
    /\ pc' = [pc EXCEPT ![j] = "running"]
    /\ UNCHANGED <<redis_client, now, work, cancelled, live>>
    /\ UNCHANGED <<celeryVars, runnerVars, stepVars>>

RunFinish(j) ==
    /\ pc[j] = "running"
    /\ \E out \in Outcomes : \E t \in Readings :
       \E okGet \in OkKeyed(j) : \E okSet \in OkSetex :
         LET s == RunJobFinish(memory_store, redis_data, j, out, t, okGet, okSet) IN
         /\ memory_store' = s.mem
         /\ redis_data' = s.rds
         /\ raised' = s.raised
         /\ now' = t
         /\ work' = [work EXCEPT ![j] = Some(out)]
    /\ pc' = [pc EXCEPT ![j] = "done"]
    /\ UNCHANGED <<redis_client, cancelled, live>>
    /\ UNCHANGED <<celeryVars, runnerVars, stepVars>>

CancelMessage == "Job cancelled by user"

\* How celery_app.control.revoke(job_id, terminate=True) may go: the message
\* is sent (to workers that run none of the wrappers above, so nothing comes
\* of it), or the call raises (no broker).
RevokeOutcomes == {"sent", "raise"}

\* The revoke outside its try / except: its exception goes on.
Revoke_Unguarded(outcome) == [raised |-> outcome = "raise"]

\* try: revoke(...) except Exception: pass
Revoke(outcome) == [raised |-> FALSE]

\* cancel_job: [mem, rds, code, raised]; code is the HTTP status answered, 500
\* when an exception leaves the handler.
CancelJob(mem, rds, job_id, t, okGet, okGet2, okSet, revoke) ==
    LET job == GetJob(mem, rds, job_id, okGet) IN
    IF job = None
    THEN [mem |-> mem, rds |-> rds, code |-> 404, raised |-> FALSE]
    ELSE IF job[1].status \in {COMPLETED, FAILED}
    THEN [mem |-> mem, rds |-> rds, code |-> 400, raised |-> FALSE]
    ELSE IF Revoke(revoke).raised
    THEN [mem |-> mem, rds |-> rds, code |-> 500, raised |-> TRUE]
    ELSE LET s == MarkFailed(mem, rds, job_id, CancelMessage, t, okGet2, okSet)
         IN [mem |-> s.mem, rds |-> s.rds, code |-> 200, raised |-> s.raised]

Cancel(j) ==
    /\ \E t \in Readings : \E okGet, okGet2 \in OkKeyed(j) : \E okSet \in OkSetex :
       \E revoke \in RevokeOutcomes :
         LET s == CancelJob(memory_store, redis_data, j, t, okGet, okGet2, okSet,
                            revoke) IN
         /\ memory_store' = s.mem
         /\ redis_data' = s.rds
         /\ raised' = s.raised
         /\ now' = IF s.code = 200 THEN t ELSE now
         /\ cancelled' = IF s.code = 200 THEN cancelled \cup {j} ELSE cancelled
    /\ UNCHANGED <<redis_client, pc, work, live>>
    /\ UNCHANGED <<celeryVars, runnerVars, stepVars>>

Next ==
    \/ \E j \in JobIds : RedisExpire(j)
    \/ \E j \in JobIds : Submit(j)
    \/ \E j \in JobIds : RunStart(j)
    \/ \E j \in JobIds : RunFinish(j)
    \/ \E j \in JobIds : Cancel(j)

Spec == Init /\ [][Next]_vars

\* ----------------------------------------------------------------- Celery
\* The states a Celery result can be in (celery.states), as result.status
\* reports them.
NativeStates ==
    {"PENDING", "RECEIVED", "STARTED", "SUCCESS", "FAILURE", "REVOKED",
     "REJECTED", "RETRY", "IGNORED"}

\* str.lower() on the names above.
Lower(state) ==
    CASE state = "PENDING" -> "pending"
      [] state = "RECEIVED" -> "received"
      [] state = "STARTED" -> "started"
      [] state = "SUCCESS" -> "success"
      [] state = "FAILURE" -> "failure"
      [] state = "REVOKED" -> "revoked"
      [] state = "REJECTED" -> "rejected"
      [] state = "RETRY" -> "retry"
      [] state = "IGNORED" -> "ignored"

\* What the result backend holds for a task: its state and, with it, the
\* return value (SUCCESS) or the exception (FAILURE, RETRY, REVOKED).
TaskMetas ==
    {[status |-> st, result |-> None] :
        st \in {"PENDING", "RECEIVED", "STARTED", "REJECTED", "IGNORED"}}
        \cup {[status |-> "SUCCESS", result |-> Some(p)] : p \in Payloads}
        \cup {[status |-> st, result |-> Some(<<"Exception", e>>)] :
                 st \in {"FAILURE", "RETRY"}, e \in Faults}
        \cup {[status |-> "REVOKED",
               result |-> Some(<<"TaskRevokedError", "revoked">>)]}

\* AsyncResult(task_id, app=celery_app): a task the backend knows nothing of
\* reads as PENDING.
AsyncResult(backend, task_id) ==
    IF task_id \in DOMAIN backend
    THEN backend[task_id]
    ELSE [status |-> "PENDING", result |-> None]

\* result.ready() and result.failed()
Ready(result) == result.status \in {"SUCCESS", "FAILURE", "REVOKED"}
Failed(result) == result.status = "FAILURE"

status_map ==
    [st \in {"PENDING", "STARTED", "SUCCESS", "FAILURE", "REVOKED"} |->
        CASE st = "PENDING" -> "pending"
          [] st = "STARTED" -> "running"
          [] st = "SUCCESS" -> "completed"
          [] st = "FAILURE" -> "failed"
          [] st = "REVOKED" -> "failed"]

\* get_task_status
GetTaskStatus(backend, task_id) ==
    LET result == AsyncResult(backend, task_id) IN
    [task_id |-> task_id,
     status |-> IF result.status \in DOMAIN status_map
                THEN status_map[result.status]
                ELSE Lower(result.status),
     result |-> IF Ready(result) THEN result.result ELSE None,
     error |-> IF Failed(result) THEN Some(Str(result.result[1])) ELSE None]

\* The result backend holds whatever the workers have stored.
TaskInit ==
    /\ StoreInit /\ RunnerInit /\ StepInit
    /\ celery_backend \in [TaskIds -> TaskMetas]
    /\ task_reply = None

StatusOf(tid) ==
    /\ task_reply' = Some(GetTaskStatus(celery_backend, tid))
    /\ UNCHANGED <<celery_backend, storeVars, runnerVars, stepVars>>

TaskNext == \E tid \in TaskIds : StatusOf(tid)

TaskSpec == TaskInit /\ [][TaskNext]_vars

\* ------------------------------------------------------------- TestRunner
\* TestFramework
CYPRESS == "cypress"
PLAYWRIGHT == "playwright"

\* The files run_cypress / run_playwright write under the temporary directory.
WorkspaceFiles(framework) ==
    IF framework = CYPRESS
    THEN {"cypress/e2e/test.cy.js", "cypress/support/e2e.js", "cypress.config.js"}
    ELSE {"test.spec.js", "playwright.config.js"}

\* The command line built for the subprocess.
Cmd(framework, browser, headless) ==
    IF framework = CYPRESS
    THEN <<"npx", "cypress", "run", "--browser", browser,
           "--spec", "cypress/e2e/test.cy.js">>
             \o (IF headless THEN <<"--headless">> ELSE <<>>)
    ELSE <<"npx", "playwright", "test", "test.spec.js">>

\* The default browser of each run_* method.
Browser(framework) == IF framework = CYPRESS THEN "chrome" ELSE "chromium"

\* What the subprocess may write to a pipe: nothing, text, a byte that is not
\* UTF-8.
Outputs == {<<>>, <<104, 105>>, <<255>>}

\* bytes.decode("utf-8", errors="replace"), on single-byte input: a byte that
\* is not ASCII becomes U+FFFD.
Decode(bytes) ==
    [i \in 1..Len(bytes) |-> IF bytes[i] < 128 THEN bytes[i] ELSE 65533]

\* The exit codes followed.
ExitCodes == {0, 1}

\* How create_subprocess_exec may fail: npx is not on the PATH, or what is
\* found there cannot be executed.
LaunchFaults ==
    {<<"FileNotFoundError", "[Errno 2] No such file or directory: 'npx'">>,
     <<"PermissionError", "[Errno 13] Permission denied: 'npx'">>}

\* _run_process that reports success whenever the subprocess has exited.
RunProcessResult_ExitIsSuccess(how, returncode, stdout, stderr, fault) ==
    CASE how = "timeout" ->
           [success |-> FALSE, error |-> Some("Test timed out"),
            stdout |-> <<>>, stderr |-> <<>>, exit_code |-> -1]
      [] how = "exit" ->
           [success |-> TRUE,
            stdout |-> Decode(stdout),
            stderr |-> Decode(stderr),
            exit_code |-> returncode,
            error |-> None]
      [] how = "fault" ->
           [success |-> FALSE, error |-> Some(Str(fault)),
            stdout |-> <<>>, stderr |-> <<>>, exit_code |-> -1]

\* _run_process, by how the subprocess went: `how` is "exit" (with the exit
\* code and what the pipes gave), "timeout", or "fault" (with the exception
\* create_subprocess_exec raised).
RunProcessResult(how, returncode, stdout, stderr, fault) ==
    CASE how = "timeout" ->
           [success |-> FALSE, error |-> Some("Test timed out"),
            stdout |-> <<>>, stderr |-> <<>>, exit_code |-> -1]
      [] how = "exit" ->
           [success |-> returncode = 0,
            stdout |-> Decode(stdout),
            stderr |-> Decode(stderr),
            exit_code |-> returncode,
            error |-> IF returncode = 0 THEN None ELSE Some("Test failed")]
      [] how = "fault" /\ fault[1] = "FileNotFoundError" ->
           [success |-> FALSE,
            error |-> Some("npx not found. Make sure Node.js is installed."),
            stdout |-> <<>>, stderr |-> <<>>, exit_code |-> -1]
      [] how = "fault" /\ fault[1] # "FileNotFoundError" ->
           [success |-> FALSE, error |-> Some(Str(fault)),
            stdout |-> <<>>, stderr |-> <<>>, exit_code |-> -1]

\* run_cypress / run_playwright up to the first await: the temporary directory
\* is made and the files are written, or a write raises, the `with` block is
\* left, the directory is removed and the exception leaves the call.
RunEnter ==
    /\ run = None
    /\ \E framework \in {CYPRESS, PLAYWRIGHT} : \E headless \in BOOLEAN :
       \E written \in BOOLEAN :
         IF written
         THEN /\ run' = Some([pc |-> "launching", framework |-> framework,
                               cmd |-> Cmd(framework, Browser(framework), headless),
                               timeout |-> 60000 \div 1000 + 30,
                               how |-> None, ret |-> None, raised |-> None])
              /\ tempdir' = Some(WorkspaceFiles(framework))
         ELSE /\ run' = Some([pc |-> "raised", framework |-> framework,
                               cmd |-> Cmd(framework, Browser(framework), headless),
                               timeout |-> 60000 \div 1000 + 30,
                               how |-> Some("write"), ret |-> None,
                               raised |-> Some("OSError")])
              /\ tempdir' = None
    /\ UNCHANGED <<process, storeVars, celeryVars, stepVars>>

\* await create_subprocess_exec: the subprocess is started, or the call
\* raises; then _run_process returns its result, the `with` block is left and
\* the directory is removed.
Launch ==
    /\ run # None /\ run[1].pc = "launching"
    /\ \/ /\ process' = Some([root |-> "running", children |-> FALSE])
          /\ run' = Some([run[1] EXCEPT !.pc = "waiting"])
          /\ UNCHANGED tempdir
       \/ \E fault \in LaunchFaults :
            /\ run' = Some([run[1] EXCEPT
                              !.pc = "returned",
                              !.how = Some(fault[1]),
                              !.ret = Some(RunProcessResult("fault", 0, <<>>,
                                                            <<>>, fault))])
            /\ tempdir' = None
            /\ UNCHANGED process
    /\ UNCHANGED <<storeVars, celeryVars, stepVars>>

\* npx starts the runner and the runner its browser: the subprocess has
\* processes of its own.
Spawn ==
    /\ process # None /\ process[1].root = "running"
    /\ ~process[1].children
    /\ process' = Some([process[1] EXCEPT !.children = TRUE])
    /\ UNCHANGED <<run, tempdir, storeVars, celeryVars, stepVars>>

\* The subprocess and what it spawned exit, both pipes reach their end and
\* communicate() returns in time: the result is built, the directory removed.
Exit ==
    /\ run # None /\ run[1].pc = "waiting"
    /\ \E returncode \in ExitCodes : \E stdout, stderr \in Outputs :
         /\ process' = Some([root |-> "exited", children |-> FALSE,
                              returncode |-> returncode,
                              stdout |-> stdout, stderr |-> stderr])
         /\ run' = Some([run[1] EXCEPT
                           !.pc = "returned",
                           !.how = Some("exit"),
                           !.ret = Some(RunProcessResult("exit", returncode,
                                                         stdout, stderr, None))])
         /\ tempdir' = None
    /\ UNCHANGED <<storeVars, celeryVars, stepVars>>

\* wait_for gives up after `timeout` seconds: process.kill() sends SIGKILL to
\* the subprocess, and to nothing it spawned; the result is built and the
\* `with` block left.  Removing the directory while a spawned process still
\* writes in it may fail, and then the error leaves the call and the
\* directory is still there.
Timeout ==
    /\ run # None /\ run[1].pc = "waiting"
    /\ process' = Some([process[1] EXCEPT !.root = "killed"])
    /\ \E removed \in (IF process[1].children THEN BOOLEAN ELSE {TRUE}) :
         IF removed
         THEN /\ run' = Some([run[1] EXCEPT
                                !.pc = "returned",
                                !.how = Some("timeout"),
                                !.ret = Some(RunProcessResult("timeout", 0, <<>>,
                                                              <<>>, None))])
              /\ tempdir' = None
         ELSE /\ run' = Some([run[1] EXCEPT
                                !.pc = "raised",
                                !.how = Some("timeout"),
                                !.raised = Some("OSError")])
              /\ UNCHANGED tempdir
    /\ UNCHANGED <<storeVars, celeryVars, stepVars>>

RunnerNext == RunEnter \/ Launch \/ Spawn \/ Exit \/ Timeout

RunnerSpec == Init /\ [][RunnerNext]_vars

\* -------------------------------------------------------- steps to script
\* step.get(key, default): the default only when the key is not there.
StepGet(step, key, default) == IF key \in DOMAIN step THEN step[key] ELSE default

\* What an f-string makes of an optional text and of an optional integer.
FormatText(v) == IF v = None THEN "None" ELSE v[1]
Digits(n) == CASE n = 500 -> "500" [] n = 1000 -> "1000"
FormatInt(v) == IF v = None THEN "None" ELSE Digits(v[1])

\* "\n".join(lines); a line is the sequence of the pieces of text it is made
\* of, the script the sequence of all pieces with "\n" between lines.
RECURSIVE Join(_)
Join(lines) ==
    IF Len(lines) = 0 THEN <<>>
    ELSE IF Len(lines) = 1 THEN lines[1]
    ELSE lines[1] \o <<"\n">> \o Join(Tail(lines))

\* The lines before and after the statements.
Header(framework) ==
    IF framework = CYPRESS
    THEN << <<"describe('Test', () => {">>,
            <<"  it('runs the test steps', () => {">> >>
    ELSE << <<"const { test, expect } = require('@playwright/test');">>,
            <<>>,
            <<"test('runs the test steps', async ({ page }) => {">> >>

Footer(framework) ==
    IF framework = CYPRESS
    THEN << <<"  });">>, <<"});">> >>
    ELSE << <<"});">> >>

\* The lines one step adds in _steps_to_cypress: one, or none.
CypressStep(step, base_url) ==
    LET step_type == StepGet(step, "type", "")
        selector == FormatText(StepGet(step, "selector", Some("")))
        value == FormatText(StepGet(step, "value", Some("")))
    IN CASE step_type = "navigate" ->
              << <<"    cy.visit('",
                   FormatText(StepGet(step, "url", Some(base_url))), "');">> >>
         [] step_type = "click" ->
              << <<"    cy.get('", selector, "').click();">> >>
         [] step_type = "type" ->
              << <<"    cy.get('", selector, "').type('", value, "');">> >>
         [] step_type = "verify" ->
              << <<"    cy.get('", selector, "').should('exist');">> >>
         [] step_type = "wait" ->
              << <<"    cy.wait(",
                   FormatInt(StepGet(step, "duration", Some(1000))), ");">> >>
         [] OTHER -> <<>>

\* The lines one step adds in _steps_to_playwright: one, or none.
PlaywrightStep(step, base_url) ==
    LET step_type == StepGet(step, "type", "")
        selector == FormatText(StepGet(step, "selector", Some("")))
        value == FormatText(StepGet(step, "value", Some("")))
    IN CASE step_type = "navigate" ->
              << <<"  await page.goto('",
                   FormatText(StepGet(step, "url", Some(base_url))), "');">> >>
         [] step_type = "click" ->
              << <<"  await page.click('", selector, "');">> >>
         [] step_type = "type" ->
              << <<"  await page.fill('", selector, "', '", value, "');">> >>
         [] step_type = "verify" ->
              << <<"  await expect(page.locator('", selector,
                   "')).toBeVisible();">> >>
         [] step_type = "wait" ->
              << <<"  await page.waitForTimeout(",
                   FormatInt(StepGet(step, "duration", Some(1000))), ");">> >>
         [] OTHER -> <<>>

\* The for loop over the steps: the lines of the steps, in their order.
RECURSIVE StepLines(_, _, _)
StepLines(framework, step_list, base_url) ==
    IF step_list = <<>>
    THEN <<>>
    ELSE (IF framework = CYPRESS
          THEN CypressStep(Head(step_list), base_url)
          ELSE PlaywrightStep(Head(step_list), base_url))
             \o StepLines(framework, Tail(step_list), base_url)

\* _steps_to_cypress and _steps_to_playwright
StepsToCypress(step_list, base_url) ==
    Join(Header(CYPRESS) \o StepLines(CYPRESS, step_list, base_url)
           \o Footer(CYPRESS))

StepsToPlaywright(step_list, base_url) ==
    Join(Header(PLAYWRIGHT) \o StepLines(PLAYWRIGHT, step_list, base_url)
           \o Footer(PLAYWRIGHT))

StepsToScript(framework, step_list, base_url) ==
    IF framework = CYPRESS
    THEN StepsToCypress(step_list, base_url)
    ELSE StepsToPlaywright(step_list, base_url)

\* The steps given: as the route dumps them (every key there, None where the
\* request had nothing), and as a caller's own dicts (keys left out).
StepDicts ==
    {[type |-> "navigate", url |-> Some("https://x")],
     [type |-> "navigate"],
     [type |-> "navigate", selector |-> None, value |-> None, url |-> None,
      duration |-> None],
     [type |-> "click", selector |-> Some("#btn")],
     [type |-> "type", selector |-> Some("#inp"), value |-> Some("hello")],
     [type |-> "select", selector |-> Some("#sel"), value |-> Some("a")],
     [type |-> "verify", selector |-> Some("#btn")],
     [type |-> "wait", duration |-> Some(500)],
     [type |-> "wait"],
     [type |-> "wait", selector |-> None, value |-> None, url |-> None,
      duration |-> None],
     [type |-> "hover", selector |-> Some("#btn")]}

StepLists == UNION {[1..n -> StepDicts] : n \in 0..MaxSteps}
BaseUrls == {"https://base"}

StepSpecInit ==
    /\ StoreInit /\ CeleryInit /\ RunnerInit
    /\ steps \in StepLists
    /\ script = None

Synthesize(framework) ==
    /\ \E base_url \in BaseUrls :
         script' = Some([framework |-> framework, base_url |-> base_url,
                         text |-> StepsToScript(framework, steps, base_url)])
    /\ UNCHANGED <<steps, storeVars, celeryVars, runnerVars>>

StepNext == \E framework \in {CYPRESS, PLAYWRIGHT} : Synthesize(framework)

StepSpec == StepSpecInit /\ [][StepNext]_vars

\* ------------------------------------------------- the JobStore interface
\* The store called directly, in any order, by any caller.
CallCreate(j) ==
    /\ \E t \in Readings : \E ok \in OkSetex :
         LET s == CreateJob(memory_store, redis_data, j, t, ok) IN
         /\ memory_store' = s.mem
         /\ redis_data' = s.rds
         /\ raised' = s.raised
         /\ now' = t
    /\ live' = live \cup {j}
    /\ UNCHANGED <<redis_client, pc, work, cancelled>>
    /\ UNCHANGED <<celeryVars, runnerVars, stepVars>>

MarkCalls ==
    {<<"mark_running", None>>}
        \cup {<<"mark_completed", p>> : p \in Payloads}
        \cup {<<"mark_failed", e>> : e \in Faults}

\* One of mark_running, mark_completed, mark_failed, as `call` says.
Mark(mem, rds, job_id, call, t, okGet, okSet) ==
    CASE call[1] = "mark_running" ->
           MarkRunning(mem, rds, job_id, t, okGet, okSet)
      [] call[1] = "mark_completed" ->
           MarkCompleted(mem, rds, job_id, call[2], t, okGet, okSet)
      [] call[1] = "mark_failed" ->
           MarkFailed(mem, rds, job_id, call[2], t, okGet, okSet)

CallMark(j) ==
    /\ \E call \in MarkCalls : \E t \in Readings :
       \E okGet \in OkKeyed(j) : \E okSet \in OkSetex :
         LET s == Mark(memory_store, redis_data, j, call, t, okGet, okSet) IN
         /\ call[1] = "mark_running" => t = now
         /\ memory_store' = s.mem
         /\ redis_data' = s.rds
         /\ raised' = s.raised
         /\ now' = IF s.ret = None THEN now ELSE t
    /\ UNCHANGED <<redis_client, pc, work, cancelled, live>>
    /\ UNCHANGED <<celeryVars, runnerVars, stepVars>>

CallDelete(j) ==
    /\ \E ok \in OkKeyed(j) :
         LET s == DeleteJob(memory_store, redis_data, j, ok) IN
         /\ memory_store' = s.mem
         /\ redis_data' = s.rds
         /\ raised' = s.raised
         /\ live' = IF s.ret = Some(TRUE) THEN live \ {j} ELSE live
    /\ UNCHANGED <<redis_client, now, pc, work, cancelled>>
    /\ UNCHANGED <<celeryVars, runnerVars, stepVars>>

StoreNext ==
    \/ \E j \in JobIds : RedisExpire(j)
    \/ \E j \in JobIds : CallCreate(j)
    \/ \E j \in JobIds : CallMark(j)
    \/ \E j \in JobIds : CallDelete(j)

StoreSpec == Init /\ [][StoreNext]_vars

\* The routes over the jobs that GET /jobs lists.
ListNext ==
    \/ \E j \in ListIds : RedisExpire(j)
    \/ \E j \in ListIds : Submit(j)
    \/ \E j \in ListIds : RunStart(j)
    \/ \E j \in ListIds : RunFinish(j)
    \/ \E j \in ListIds : Cancel(j)

ListSpec == Init /\ [][ListNext]_vars

\* What list_jobs may be given and may meet in the current state: the Redis
\* keys it gets to read, and the order of the local map.
Scans == Arrangements(DOMAIN redis_data)
Orders == Perms(DOMAIN memory_store)

\* ------------------------------------------------------------- scheduling
\* A queued background task is run once the response is out, a unit of work
\* that ends resumes its wrapper, and a Redis entry left alone reaches its TTL.
LiveSpec ==
    /\ Spec
    /\ \A j \in JobIds :
         WF_vars(RunStart(j)) /\ WF_vars(RunFinish(j)) /\ WF_vars(RedisExpire(j))

\* -------------------------------------------------------------- the record
\* What get_job answers for j with Redis unreachable: the local map's record.
Local(j) == GetJob(memory_store, redis_data, j, FALSE)

\* What get_job may answer for j: with Redis reachable, and with it not.
Views(j) == {GetJob(memory_store, redis_data, j, ok) : ok \in BOOLEAN}

IsTerminal(v) == v # None /\ v[1].status \in Terminal

\* ------------------------------------------------------------------ claims
\* C1: once a job's record is Completed or Failed, no later mark_running,
\* mark_completed or mark_failed changes any of its fields: from a state in
\* which every answer of get_job for j is terminal, a step leaves the local
\* map's record of j as it was.
C1_FirstTerminalWriteWins ==
    [][\A j \in JobIds :
         (\A v \in Views(j) : IsTerminal(v)) => Local(j)' = Local(j)]_vars

\* C2: in every reachable state each record has result set iff its status is
\* Completed, error set iff its status is Failed, and never both set.
C2_ResultIffCompletedErrorIffFailed ==
    \A j \in JobIds : \A v \in Views(j) :
        v # None =>
            /\ (v[1].result # None) <=> (v[1].status = COMPLETED)
            /\ (v[1].error # None) <=> (v[1].status = FAILED)
            /\ ~(v[1].result # None /\ v[1].error # None)

\* C3: completed_at is unset while the status is Pending or Running, set once
\* the record is terminal, and never changed after it has been set.
C3_CompletedAtSetOnce ==
    /\ [](\A j \in JobIds :
            Local(j) # None =>
                ((Local(j)[1].completed_at # None) <=> IsTerminal(Local(j))))
    /\ [][\A j \in JobIds :
            (Local(j) # None /\ Local(j)[1].completed_at # None) =>
                /\ Local(j)' # None
                /\ Local(j)[1].completed_at' = Local(j)[1].completed_at]_vars

\* C4: once cancel has answered 200 for a job, its record is Failed with the
\* cancellation error in every later state, whatever the wrapper still does.
C4_CancelIsAuthoritative ==
    \A j \in cancelled :
        /\ Local(j) # None
        /\ Local(j)[1].status = FAILED
        /\ Local(j)[1].error = Some(CancelMessage)

\* C5: once a job's wrapper has started, its record reaches Completed or
\* Failed in every answer of get_job, whether the unit of work returns or
\* raises; and once the wrapper has ended the local map's record is not left
\* Pending or Running.
C5_TerminalStateDelivery ==
    /\ \A j \in JobIds : (pc[j] = "running") ~> (\A v \in Views(j) : IsTerminal(v))
    /\ [](\A j \in JobIds : pc[j] = "done" => IsTerminal(Local(j)))

C5_Witness ==
    /\ pc[1] = "done"
    /\ work[1][1][1] = "raise"
    /\ Local(1)[1].status = FAILED

\* C6: for a job that was never cancelled, once its wrapper has ended the
\* record is Completed with the dumped payload as result if the unit of work
\* returned, and Failed with the exception's text as error if it raised.
C6_OutcomeMapping ==
    \A j \in JobIds :
        (pc[j] = "done" /\ j \notin cancelled) =>
            LET out == work[j][1]
                job == Local(j)[1]
            IN /\ Local(j) # None
               /\ out[1] = "return" =>
                     job.status = COMPLETED /\ job.result = Some(ModelDump(out[2]))
               /\ out[1] = "raise" =>
                     job.status = FAILED /\ job.error = Some(Str(out[2]))

C6_Witness ==
    /\ pc[1] = "done"
    /\ 1 \notin cancelled
    /\ work[1][1][1] = "return"
    /\ Local(1)[1].status = COMPLETED
    /\ Local(1)[1].result = Some("r1")

\* C7: cancel of a job whose record is Completed or Failed answers 400 and
\* changes nothing; cancel of an unknown id answers 404 and creates nothing;
\* so cancel of a job already cancelled answers 400 and changes nothing.
C7_CancelErrorOutcomes ==
    \A j \in JobIds : \A t \in Readings : \A okGet, okGet2, okSet \in BOOLEAN :
    \A revoke \in RevokeOutcomes :
        LET got == GetJob(memory_store, redis_data, j, okGet)
            r == CancelJob(memory_store, redis_data, j, t, okGet, okGet2, okSet,
                           revoke)
            same == r.mem = memory_store /\ r.rds = redis_data
        IN /\ IsTerminal(got) => (r.code = 400 /\ same)
           /\ got = None => (r.code = 404 /\ same)
           /\ j \in cancelled => (r.code = 400 /\ same)

\* C8: between submit's answer and the start of the wrapper, get_job gives a
\* Pending record of that id with no completed_at, no result and no error.
C8_SubmittedIsPending ==
    \A j \in JobIds :
        (pc[j] = "queued" /\ j \notin cancelled) =>
            \A v \in Views(j) :
                /\ v # None
                /\ v[1].job_id = j
                /\ v[1].status = PENDING
                /\ v[1].completed_at = None
                /\ v[1].result = None
                /\ v[1].error = None

C8_Witness ==
    /\ pc[1] = "queued"
    /\ 1 \notin cancelled
    /\ JobKey(1) \in DOMAIN redis_data

\* C9: create_job(id) followed by get_job(id) gives the record create_job
\* returned, field for field, with Redis answering both calls and with Redis
\* answering neither (or no client).
C9_CreateGetRoundTrip ==
    \A j \in JobIds : \A t \in Readings : \A ok \in BOOLEAN :
        LET c == CreateJob(memory_store, redis_data, j, t, ok)
        IN GetJob(c.mem, c.rds, j, ok) = c.ret

C9_Witness ==
    /\ redis_client
    /\ JobKey(1) \in DOMAIN redis_data
    /\ Local(1) # None
    /\ Local(1)[1].status = PENDING
    /\ Local(1)[1].created_at.microsecond # 0
    /\ Views(1) = {Local(1)}

C12_StatusOfIsTotalMapping ==
    task_reply # None =>
        LET r == task_reply[1]
            native == AsyncResult(celery_backend, r.task_id).status
        IN /\ r.status \in {StatusValue(st) : st \in JobStatuses}
           /\ native = "PENDING" => r.status = StatusValue(PENDING)
           /\ native = "STARTED" => r.status = StatusValue(RUNNING)
           /\ native = "SUCCESS" => r.status = StatusValue(COMPLETED)
           /\ native = "FAILURE" => r.status = StatusValue(FAILED)
           /\ native = "REVOKED" => r.status = StatusValue(FAILED)
           /\ native \notin DOMAIN status_map =>
                 r.status = StatusValue(FAILED) /\ r.error # None

\* Whether an error text of _run_process has the phrase in it.
Mentions(text, phrase) ==
    CASE phrase = "timed out" -> text = "Test timed out"
      [] phrase = "not found" ->
           text = "npx not found. Make sure Node.js is installed."

\* C13: when the subprocess has not exited by the timeout, the run returns
\* success false, exit_code -1 and an error with "timed out" in it, and when
\* it has returned neither the subprocess nor a process it spawned is alive.
C13_TimeoutKillsProcessTree ==
    (run # None /\ run[1].how = Some("timeout")) =>
        /\ run[1].pc = "returned"
        /\ run[1].ret[1].success = FALSE
        /\ run[1].ret[1].exit_code = -1
        /\ run[1].ret[1].error # None
        /\ Mentions(run[1].ret[1].error[1], "timed out")
        /\ process[1].root # "running"
        /\ ~process[1].children

\* C14: when the command cannot be found or cannot be executed, the run
\* returns success false, exit_code -1 and an error with "not found" in it,
\* and no exception leaves the call.
C14_MissingRuntimeReported ==
    (run # None /\ run[1].how # None
       /\ run[1].how[1] \in {fault[1] : fault \in LaunchFaults}) =>
        /\ run[1].pc = "returned"
        /\ run[1].raised = None
        /\ run[1].ret[1].success = FALSE
        /\ run[1].ret[1].exit_code = -1
        /\ run[1].ret[1].error # None
        /\ Mentions(run[1].ret[1].error[1], "not found")

\* C15: however a run ends (exit code 0, another exit code, timeout, the
\* command not launched, an exception while the files are written), its
\* temporary directory is gone when the call returns or raises.
C15_WorkspaceRemoved ==
    (run # None /\ run[1].pc \in {"returned", "raised"}) => tempdir = None

\* The actions of the mapping table.
MappingTable == {"navigate", "click", "type", "select", "verify", "wait"}

\* The lines of a script: its pieces cut at each "\n".
RECURSIVE SplitLines(_, _)
SplitLines(text, line) ==
    IF text = <<>>
    THEN <<line>>
    ELSE IF Head(text) = "\n"
         THEN <<line>> \o SplitLines(Tail(text), <<>>)
         ELSE SplitLines(Tail(text), Append(line, Head(text)))

\* The statements of a script: its lines without header and footer.
Statements(framework, text) ==
    LET lines == SplitLines(text, <<>>)
    IN SubSeq(lines, Len(Header(framework)) + 1,
              Len(lines) - Len(Footer(framework)))

RECURSIVE Concat(_)
Concat(seqs) == IF seqs = <<>> THEN <<>> ELSE Head(seqs) \o Concat(Tail(seqs))

\* C17: the script is the flavor's header, then exactly one statement for
\* each step whose action is in the mapping table and none for any other
\* step, in the order of the steps, then the footer.
C17_OneStatementPerMappedStep ==
    script # None =>
        LET fw == script[1].framework
            url == script[1].base_url
            lines == SplitLines(script[1].text, <<>>)
            alone == [i \in 1..Len(steps) |->
                        Statements(fw, StepsToScript(fw, <<steps[i]>>, url))]
        IN /\ \A i \in 1..Len(steps) :
                 Len(alone[i]) = IF steps[i].type \in MappingTable THEN 1 ELSE 0
           /\ lines = Header(fw) \o Concat(alone) \o Footer(fw)

\* Pending, then Running, then Completed or Failed.
Stage(status) ==
    CASE status = PENDING -> 0
      [] status = RUNNING -> 1
      [] status \in Terminal -> 2

\* C18: a job's status never moves to an earlier stage (not from Running to
\* Pending, not from Completed or Failed to Running or Pending), the unit of
\* work is started only with the record marked Running, and the status
\* becomes Completed only from Running.
C18_StatusOnlyAdvances ==
    [][\A j \in JobIds :
         LET before == Local(j)
             after == Local(j)'
         IN (before # None /\ after # None) =>
              /\ Stage(after[1].status) >= Stage(before[1].status)
              /\ (pc[j] # "running" /\ pc'[j] = "running") =>
                    after[1].status = RUNNING
              /\ (before[1].status # COMPLETED /\ after[1].status = COMPLETED) =>
                    before[1].status = RUNNING]_vars

\* C19: when a job id is in Redis and in the local map with different
\* statuses, list_jobs gives for that id the copy whose status is further on
\* (Completed or Failed over Running over Pending), never the other.
C19_ListPrefersAdvancedCopy ==
    \A j \in ListIds :
        (redis_client /\ j \in DOMAIN memory_store
           /\ JobKey(j) \in DOMAIN redis_data) =>
            LET local == DictToJob(memory_store[j])
                durable == DeserializeJob(redis_data[JobKey(j)])
                furthest == IF Stage(local.status) >= Stage(durable.status)
                            THEN Stage(local.status)
                            ELSE Stage(durable.status)
            IN local.status # durable.status =>
                 \A n \in Limits : \A scanned \in Scans : \A order \in Orders :
                     LET r == ListJobs(memory_store, redis_data, None, n,
                                       scanned, order)
                     IN \A i \in 1..Len(r) :
                          r[i].job_id = j => Stage(r[i].status) = furthest

\* C20: cancel_job on a job read as Pending or Running answers 200 and leaves
\* the record Failed with the cancellation error, whether the revoke is sent
\* or raises; the revoke's exception neither stops the write nor leaves the
\* handler.
C20_CancelForcesFailedWhateverRevokeDoes ==
    \A j \in JobIds : \A t \in Readings : \A okGet, okGet2, okSet \in BOOLEAN :
    \A revoke \in RevokeOutcomes :
        LET got == GetJob(memory_store, redis_data, j, okGet)
            r == CancelJob(memory_store, redis_data, j, t, okGet, okGet2, okSet,
                           revoke)
            after == GetJob(r.mem, r.rds, j, FALSE)
        IN (got # None /\ got[1].status \in {PENDING, RUNNING}) =>
             /\ r.code = 200
             /\ ~r.raised
             /\ after # None
             /\ after[1].status = FAILED
             /\ after[1].error = Some(CancelMessage)

C20_Witness ==
    /\ pc[1] = "running"
    /\ 1 \notin cancelled
    /\ Local(1) # None
    /\ Local(1)[1].status = RUNNING
    /\ CancelJob(memory_store, redis_data, 1, now, TRUE, TRUE, TRUE,
                 "raise").code = 200

\* C21: for a task whose native state is REVOKED, get_task_status reports
\* failed together with an error text (that the task was cancelled).
C21_RevokedReportsCancellation ==
    task_reply # None =>
        LET r == task_reply[1]
            native == AsyncResult(celery_backend, r.task_id).status
        IN native = "REVOKED" =>
             /\ r.status = StatusValue(FAILED)
             /\ r.error # None
             /\ r.error[1] # ""

\* C22: the number of units of work executing at the same time never exceeds
\* the configured maximum concurrency; a submission beyond it is accepted and
\* waits as Pending.
C22_InProcessExecutionBounded ==
    /\ Cardinality({j \in ListIds : pc[j] = "running"}) <= max_concurrent_jobs
    /\ Cardinality({j \in ListIds : Local(j) # None /\ Local(j)[1].status = RUNNING})
         <= max_concurrent_jobs

\* C23: when the subprocess exits before the timeout, exit_code is its exit
\* code and success is true exactly when that is 0; error is unset on 0 and
\* the failure message otherwise; stdout and stderr carry what was captured
\* (as long, and byte for byte where the byte is ASCII).
C23_NormalExitReported ==
    (run # None /\ run[1].how = Some("exit")) =>
        LET ret == run[1].ret[1]
            proc == process[1]
            Carries(text, bytes) ==
                /\ Len(text) = Len(bytes)
                /\ \A i \in 1..Len(bytes) : bytes[i] < 128 => text[i] = bytes[i]
        IN /\ run[1].pc = "returned"
           /\ ret.exit_code = proc.returncode
           /\ ret.success = (proc.returncode = 0)
           /\ proc.returncode = 0 => ret.error = None
           /\ proc.returncode # 0 => ret.error = Some("Test failed")
           /\ Carries(ret.stdout, proc.stdout)
           /\ Carries(ret.stderr, proc.stderr)

C23_Witness ==
    /\ run # None
    /\ run[1].how = Some("exit")
    /\ process[1].returncode = 1
    /\ process[1].stdout = <<104, 105>>
    /\ process[1].stderr = <<255>>
    /\ run[1].ret[1].success = FALSE

\* Whether the step carries a value for the field: the key is there and is not
\* None.
HasField(step, key) == key \in DOMAIN step /\ step[key] # None

\* The statements the conversion in the current state made of step i alone,
\* each of which is in the script it returned.
StatementsOfStep(i) ==
    Statements(script[1].framework,
               StepsToScript(script[1].framework, <<steps[i]>>,
                             script[1].base_url))

InScript(statement) ==
    LET all == Statements(script[1].framework, script[1].text)
    IN \E k \in 1..Len(all) : all[k] = statement

\* C24: for either flavor, a select step gives exactly one statement, which
\* chooses the option step.value on the element step.selector.
C24_SelectEmitsOneStatement ==
    script # None =>
        \A i \in 1..Len(steps) :
            steps[i].type = "select" =>
                LET st == StatementsOfStep(i)
                IN /\ Len(st) = 1
                   /\ InScript(st[1])
                   /\ \E a, b \in 1..Len(st[1]) :
                        /\ a < b
                        /\ st[1][a] = steps[i].selector[1]
                        /\ st[1][b] = steps[i].value[1]

\* C25: for either flavor, a navigate step gives a statement that opens
\* step.url when the step has a url and base_url when it has none, also when
\* the step came through POST /run-steps with the url left out.
C25_NavigateOpensUrlOrBase ==
    script # None =>
        \A i \in 1..Len(steps) :
            steps[i].type = "navigate" =>
                LET st == StatementsOfStep(i)
                    target == IF HasField(steps[i], "url")
                              THEN steps[i].url[1]
                              ELSE script[1].base_url
                IN /\ Len(st) = 1
                   /\ InScript(st[1])
                   /\ st[1][2] = target

\* C26: for either flavor, a wait step gives a pause of step.duration
\* milliseconds when the step has a duration and of 1000 when it has none,
\* also when the step came through POST /run-steps with the duration left out.
C26_WaitPausesDurationOrDefault ==
    script # None =>
        \A i \in 1..Len(steps) :
            steps[i].type = "wait" =>
                LET st == StatementsOfStep(i)
                    pause == IF HasField(steps[i], "duration")
                             THEN Digits(steps[i].duration[1])
                             ELSE "1000"
                IN /\ Len(st) = 1
                   /\ InScript(st[1])
                   /\ st[1][2] = pause

\* C27: when more than n records match the filter, list_jobs(status, n) gives
\* the n matching records with the greatest created_at: no matching record
\* left out of the answer is newer than a record in it.
C27_ListReturnsNewest ==
    \A status \in StatusFilters : \A n \in Limits :
    \A scanned \in Scans : \A order \in Orders :
        LET r == ListJobs(memory_store, redis_data, status, n, scanned, order)
            matching == ListJobs(memory_store, redis_data, status,
                                 MaxListed + MaxJobs, scanned, order)
        IN Len(matching) > n =>
             \A i \in 1..Len(matching) :
                 ~HasId(r, matching[i].job_id) =>
                     \A k \in 1..Len(r) :
                         ~Before(r[k].created_at, matching[i].created_at)

\* C28: once mark_running, mark_completed or mark_failed on an existing job
\* has returned, get_job gives a record with the status, result and error
\* just written, whether or not the SETEX of that write went through and
\* whether or not Redis answers the get.
C28_ReadYourWrites ==
    \A j \in JobIds : \A call \in MarkCalls : \A t \in Readings :
    \A okGet \in OkKeyed(j) : \A okSet \in OkSetex :
        LET s == Mark(memory_store, redis_data, j, call, t, okGet, okSet)
        IN s.ret # None =>
             \A ok \in BOOLEAN :
                 LET got == GetJob(s.mem, s.rds, j, ok)
                 IN /\ got # None
                    /\ got[1].status = s.ret[1].status
                    /\ got[1].result = s.ret[1].result
                    /\ got[1].error = s.ret[1].error

\* C29: once delete_job(id) has returned True, get_job(id) gives None and
\* list_jobs has no record of id until create_job(id) is called again,
\* whether or not the Redis DEL went through and whatever mark_running,
\* mark_completed or mark_failed calls follow; and delete_job(id) returns
\* False only when id is in neither store.
C29_DeletionIsFinal ==
    /\ \A j \in JobIds :
         j \notin live =>
           /\ Views(j) = {None}
           /\ \A status \in StatusFilters : \A n \in Limits :
              \A scanned \in Scans : \A order \in Orders :
                  ~HasId(ListJobs(memory_store, redis_data, status, n,
                                  scanned, order), j)
    /\ \A j \in JobIds : \A ok \in OkKeyed(j) :
         DeleteJob(memory_store, redis_data, j, ok).ret = Some(FALSE) =>
           /\ j \notin DOMAIN memory_store
           /\ JobKey(j) \notin DOMAIN redis_data

\* C30: mark_running, mark_completed and mark_failed on an id for which
\* get_job gives None return None and leave the local map and Redis as they
\* were: no record is created, also when the id is unknown to the local map
\* and the Redis GET raises.
C30_MarkOfUnknownIdChangesNothing ==
    \A j \in JobIds : \A call \in MarkCalls : \A t \in Readings :
    \A okGet \in BOOLEAN : \A okSet \in BOOLEAN :
        GetJob(memory_store, redis_data, j, okGet) = None =>
            LET s == Mark(memory_store, redis_data, j, call, t, okGet, okSet)
            IN /\ s.ret = None
               /\ s.mem = memory_store
               /\ s.rds = redis_data
               /\ ~s.raised

C30_Witness ==
    /\ redis_client
    /\ 1 \notin live
    /\ 1 \notin DOMAIN memory_store
    /\ JobKey(1) \in DOMAIN redis_data
    /\ GetJob(memory_store, redis_data, 1, FALSE) = None
    /\ Mark(memory_store, redis_data, 1, <<"mark_failed", "e1">>, now,
            FALSE, TRUE).ret = None

====
